---- MODULE Spec2Model ----
(***************************************************************************)
(* A model of the deusconsole runtime console (src/deus-console.h): the    *)
(* tokenizer parseCommand with its helpers isNumericStr and trimStr, the   *)
(* variable / method / help tables, and the dispatcher runCommandAs.       *)
(*                                                                         *)
(* C strings are sequences of one-character strings.  The white-space      *)
(* characters other than the blank are written as the symbols "TAB" and    *)
(* "NL".                                                                   *)
(***************************************************************************)
EXTENDS Integers, Sequences, FiniteSets, TLC

VARIABLES
    variableTable,  \* name -> DeusConsoleVariable (flags, bound storage, onUpdate)
    methodTable,    \* name -> the registered callable
    helpTable,      \* name -> description
    storage,        \* the host-owned storage the variables are bound to
    nreg,           \* how many of its registration calls the host has made
    alive,          \* FALSE once assert() has aborted the process
    last            \* the call made last and what it gave back to its caller

vars == <<variableTable, methodTable, helpTable, storage, nreg, alive, last>>

-----------------------------------------------------------------------------
(* Characters and C library helpers                                        *)

SP == " "
TAB == "TAB"
NL == "NL"
SQ == "'"
DQ == "\""
DOT == "."
MINUS == "-"

DigitChars == <<"0", "1", "2", "3", "4", "5", "6", "7", "8", "9">>

\* isdigit(3)
IsDigit(c) == \E i \in 1..10 : DigitChars[i] = c

DigitVal(c) == (CHOOSE i \in 1..10 : DigitChars[i] = c) - 1

\* isspace(3) in the "C" locale; the model's inputs use blank, tab and newline
IsSpace(c) == c \in {SP, TAB, NL, "VT", "FF", "CR"}

\* strlen(3)
StrLen(s) == Len(s)

\* The tail of s from position i on (the C expression &s[i-1])
From(s, i) == SubSeq(s, i, Len(s))

\* The decimal digits of n >= 0, most significant first
RECURSIVE NatToStr(_)
NatToStr(n) ==
    IF n < 10 THEN <<DigitChars[n + 1]>>
    ELSE NatToStr(n \div 10) \o <<DigitChars[(n % 10) + 1]>>

\* std::to_string(int)
IntToStr(n) == IF n < 0 THEN <<MINUS>> \o NatToStr(0 - n) ELSE NatToStr(n)

\* The value of the longest prefix of digits of s from position i, given the
\* value acc of the digits read so far (the digit loop of strtol)
RECURSIVE DigitsVal(_, _, _)
DigitsVal(s, i, acc) ==
    IF i > Len(s) \/ ~IsDigit(s[i]) THEN acc
    ELSE DigitsVal(s, i + 1, acc * 10 + DigitVal(s[i]))

\* The least element of a non-empty set of integers
Least(S) == CHOOSE k \in S : \A m \in S : k <= m

\* The greatest element of a non-empty set of integers
Greatest(S) == CHOOSE k \in S : \A m \in S : m <= k

\* The first position of s at or after i that holds no white space, the
\* position of the terminator if there is none
SkipSpace(s, i) ==
    LET stops == {k \in i..Len(s) : ~IsSpace(s[k])}
    IN  IF stops = {} THEN Len(s) + 1 ELSE Least(stops)

\* atol(3): white space, an optional sign, then digits; 0 when there are none
Atol(s) ==
    LET i == SkipSpace(s, 1)
    IN  IF i <= Len(s) /\ s[i] = MINUS THEN 0 - DigitsVal(s, i + 1, 0)
        ELSE IF i <= Len(s) /\ s[i] = "+" THEN DigitsVal(s, i + 1, 0)
        ELSE DigitsVal(s, i, 0)

-----------------------------------------------------------------------------
(* Flags and token types                                                   *)

DEUS_CVAR_DEFAULT == 0
DEUS_CVAR_DEVELOPER == 2
DEUS_CVAR_READONLY == 4
DEUS_CVAR_UNREGISTERED == 8

DEUS_VARTYPE_STRING == 0
DEUS_VARTYPE_INT == 1
DEUS_VARTYPE_DEC == 2
DEUS_VARTYPE_BOOL_FALSE == 3
DEUS_VARTYPE_BOOL_TRUE == 4

\* flags & bit, for a bit that is a power of two
HasFlag(flags, bit) == (flags \div bit) % 2 = 1

-----------------------------------------------------------------------------
(* isNumericStr and trimStr                                                *)

\* The loop of isNumericStr from position i on
RECURSIVE IsNumericLoop(_, _, _, _)
IsNumericLoop(str, len, i, hasPeriod) ==
    IF i > len THEN (IF hasPeriod THEN 2 ELSE 1)
    ELSE IF str[i] = DOT /\ hasPeriod THEN 0
    ELSE IF str[i] # DOT /\ ~IsDigit(str[i]) THEN 0
    ELSE IsNumericLoop(str, len, i + 1, hasPeriod \/ str[i] = DOT)

\* A classifier that takes any text of digits and periods as numeric
isNumericStr_Lax(str, len) ==
    IF len = 0 \/ \E i \in 1..len : str[i] # DOT /\ ~IsDigit(str[i]) THEN 0
    ELSE IF \E i \in 1..len : str[i] = DOT THEN 2
    ELSE 1

\* 0: not numeric, 1: digits only, 2: digits with one period
isNumericStr(str, len) ==
    IF len = 0 THEN 0 ELSE IsNumericLoop(str, len, 1, FALSE)

\* The position where stepping back from position i over white space
\* stops: the last position that holds none, and position lo at the latest
TrimEnd(s, lo, i) ==
    Greatest({lo} \cup {k \in lo..i : ~IsSpace(s[k])})

\* The buffer as trimStr leaves it.  The leading white space is skipped by
\* advancing the local pointer only, so it stays in the caller's buffer;
\* the terminator is written after the last non-space character.
trimStr(str) ==
    LET start == SkipSpace(str, 1)
    IN  IF start > Len(str) THEN str
        ELSE SubSeq(str, 1, TrimEnd(str, start, Len(str)))

-----------------------------------------------------------------------------
(* parseCommand                                                            *)

\* The size from which an input line is refused, and the token count the
\* tokenizing loop compares argc with
MaxInputLen == 256
MaxTokens == 16

\* strtok(3) with the delimiter " ": the maximal runs of non-blank
\* characters of s, in their order
StrTok(s) ==
    LET starts == {k \in 1..Len(s) : s[k] # SP /\ (k = 1 \/ s[k - 1] = SP)}
        start(i) == CHOOSE k \in starts : Cardinality({m \in starts : m < k}) = i - 1
        end(k) == Least({m \in k..Len(s) : m = Len(s) \/ s[m + 1] = SP})
    IN  [i \in 1..Cardinality(starts) |-> SubSeq(s, start(i), end(start(i)))]

\* The size check made on the line after trimStr
InputTooLarge_AfterTrim(inputCmd) == StrLen(trimStr(inputCmd)) >= MaxInputLen

\* The size check parseCommand starts with, on the line as it was passed
InputTooLarge(inputCmd) == StrLen(inputCmd) >= MaxInputLen

IsQuote(c) == c = SQ \/ c = DQ

\* The opening piece without the blank after it
StringStartStr_NoBlank(cmdToken) == From(cmdToken, 2)

\* A piece that opens a string: the first quotation mark is trimmed off and
\* a blank is appended
StringStartStr(cmdToken) == From(cmdToken, 2) \o <<SP>>

\* A piece that closes a string: it is appended and the last character of
\* the buffer, the closing quotation mark, is popped off
StringEndStr(str, cmdToken) ==
    SubSeq(str \o cmdToken, 1, Len(str) + Len(cmdToken) - 1)

\* A piece inside a string: it is appended, followed by a blank
StringMidStr(str, cmdToken) == str \o cmdToken \o <<SP>>

\* The token text of the boolean literals
BoolTrueStr == <<"1">>
BoolFalseStr_One == <<"1">>

BoolFalseStr == <<"0">>

\* The state of the loop before the first piece: commandToken is default
\* constructed (type 0; its buffer is written before it is ever pushed)
ParseStart(commandResult) ==
    [target |-> commandResult.target,
     tokens |-> commandResult.tokens,
     isStringParsing |-> FALSE,
     str |-> <<>>,
     type |-> 0]

\* One pass of the loop body over a piece that is not the first one
ParseArg(cmdToken, st) ==
    LET isBoolPositive == ~st.isStringParsing /\ cmdToken = <<"t", "r", "u", "e">>
        isBoolNegative == ~st.isStringParsing /\ cmdToken = <<"f", "a", "l", "s", "e">>
        tokenLength == StrLen(cmdToken)
        isStringStart == ~st.isStringParsing /\ IsQuote(cmdToken[1])
        isStringEnd == st.isStringParsing /\ IsQuote(cmdToken[tokenLength])
        tokenNumericalType ==
            IF ~st.isStringParsing /\ ~isStringStart /\ ~isStringEnd
            THEN isNumericStr(cmdToken, tokenLength) ELSE 0
        tok ==
            IF isBoolPositive
            THEN [st EXCEPT !.type = DEUS_VARTYPE_BOOL_TRUE, !.str = BoolTrueStr]
            ELSE IF isBoolNegative
            THEN [st EXCEPT !.type = DEUS_VARTYPE_BOOL_FALSE, !.str = BoolFalseStr]
            ELSE IF tokenNumericalType # 0
            THEN [st EXCEPT !.type = tokenNumericalType, !.str = cmdToken]
            ELSE IF isStringStart
            THEN [st EXCEPT !.type = 0, !.isStringParsing = TRUE,
                            !.str = StringStartStr(cmdToken)]
            ELSE IF isStringEnd
            THEN [st EXCEPT !.type = 0, !.isStringParsing = FALSE,
                            !.str = StringEndStr(st.str, cmdToken)]
            ELSE IF st.isStringParsing
            THEN [st EXCEPT !.type = 0, !.str = StringMidStr(st.str, cmdToken)]
            ELSE [st EXCEPT !.type = 0, !.str = cmdToken]
    IN  IF ~tok.isStringParsing
        THEN [tok EXCEPT !.tokens = Append(tok.tokens, [str |-> tok.str, type |-> tok.type])]
        ELSE tok

\* The loop body: the first piece is the target, the others are arguments
ParsePiece(cmdToken, isFirstToken, st) ==
    IF isFirstToken THEN [st EXCEPT !.target = cmdToken] ELSE ParseArg(cmdToken, st)

\* The test that ends the loop early.  argc is the field of the command
\* object, which the loop itself never updates: it is assigned after the loop.
TokenLimitReached(argc) == argc >= MaxTokens

\* The tokenizing loop from piece i on
RECURSIVE ParseLoop(_, _, _, _)
ParseLoop(pieces, i, st, argc) ==
    IF i > Len(pieces) THEN st
    ELSE LET next == ParsePiece(pieces[i], i = 1, st)
         IN  IF TokenLimitReached(argc) THEN next
             ELSE ParseLoop(pieces, i + 1, next, argc)

\* parseCommand(inputCmd, commandResult) up to its assert: the error raised,
\* the command object as it is left, and isStringParsing after the loop
parseCommand(inputCmd, commandResult) ==
    IF InputTooLarge(inputCmd)
    THEN [err |-> "InputTooLarge", cmd |-> commandResult, isStringParsing |-> FALSE]
    ELSE LET st == ParseLoop(StrTok(trimStr(inputCmd)), 1,
                             ParseStart(commandResult), commandResult.argc)
         IN  [err |-> "none",
              cmd |-> [commandResult EXCEPT !.target = st.target,
                                            !.tokens = st.tokens,
                                            !.argc = Len(st.tokens)],
              isStringParsing |-> st.isStringParsing]

-----------------------------------------------------------------------------
(* Values, storage and the type helpers                                    *)

\* The types of the host's storage cells: int, bool, std::string and
\* const char* (test.cpp registers its const char* read-only)
ArithmeticTypes == {"int", "bool"}

\* The host-owned storage the model registers, with its type
CellType(cell) ==
    CASE cell = "cx" -> "int"
      [] cell = "cy" -> "int"
      [] cell = "cb" -> "bool"
      [] cell = "cc" -> "cstring"

\* TConsoleTypeHelper<T>::toString: std::to_string for the arithmetic types
\* (a bool is promoted to int), the text itself for the strings
TConsoleTypeHelper_toString(type, val) ==
    IF type = "bool" THEN (IF val THEN <<"1">> ELSE <<"0">>)
    ELSE IF type = "int" THEN IntToStr(val)
    ELSE val

\* static_cast<T>(long) for an arithmetic T.  The numbers the model's
\* command lines hold have few digits: they are far below 2^31, where
\* static_cast<int> changes nothing.
CastLong(type, n) == IF type = "bool" THEN n # 0 ELSE n

\* The position of the first period of s, or Len(s) + 1
RECURSIVE PeriodPos(_, _)
PeriodPos(s, i) ==
    IF i > Len(s) \/ s[i] = DOT THEN i ELSE PeriodPos(s, i + 1)

\* static_cast<T>(atof(data)) for a text of digits with one period: the
\* fraction is dropped, and a bool is true unless the number is zero
CastDouble(type, data) ==
    LET dot == PeriodPos(data, 1)
        whole == DigitsVal(data, 1, 0)
        frac == DigitsVal(data, dot + 1, 0)
    IN  IF type = "bool" THEN whole # 0 \/ frac # 0 ELSE whole

\* bindWriteMethods: what each of the three writers stores.  For an
\* arithmetic T, write reads a T out of the object it is handed, which the
\* dispatcher makes a std::string: the value read is indeterminate (junk).
writeIntFromBuffer(type, data) ==
    IF type \in ArithmeticTypes THEN CastLong(type, Atol(data)) ELSE data

writeDecimalFromBuffer(type, data) ==
    IF type \in ArithmeticTypes THEN CastDouble(type, data) ELSE data

write(type, tokenStr, junk) ==
    IF type \in ArithmeticTypes THEN junk ELSE tokenStr

\* How many of the values an indeterminate read can give the model tries
JunkValues == 2

\* The j-th value an indeterminate read of a T gives in the model
Indeterminate(type, j) ==
    IF type = "bool" THEN j % 2 = 1
    ELSE IF type = "int" THEN (j - 2) * 1162167622
    ELSE <<>>

\* The storage as the host constructs it
InitStorage ==
    [cell \in {"cx", "cy", "cb", "cc"} |->
        CASE cell = "cx" -> 10
          [] cell = "cy" -> 7
          [] cell = "cb" -> TRUE
          [] cell = "cc" -> <<"a">>]

-----------------------------------------------------------------------------
(* The tables                                                              *)

variableExists(name) == name \in DOMAIN variableTable

methodExists(name) == name \in DOMAIN methodTable

\* A read that gives the value the storage had when it was constructed: the
\* closure capturing the value instead of the reference
read_Snapshot(variable) == InitStorage[variable.cell]

\* variable.read(): the bound storage
read(variable) == storage[variable.cell]

\* variable.toString()
toString(variable) == TConsoleTypeHelper_toString(CellType(variable.cell), storage[variable.cell])

\* A function extended or overwritten at one key: table[key] = value
Put(table, key, value) ==
    [k \in DOMAIN table \cup {key} |-> IF k = key THEN value ELSE table[k]]

\* What the target buffer of a default constructed DeusCommandType holds:
\* it is not initialized
Uninitialized == <<"uninitialized">>

\* DeusCommandType as default constructed
FreshCommand ==
    [target |-> Uninitialized, argc |-> 0, tokens |-> <<>>, returnStr |-> <<>>]

NoCommand == FreshCommand

\* What a call hands back to the host: the error thrown ("none" if none),
\* the command object, the typed value returned, the branch of the
\* dispatcher that ran, the methods invoked and the values the onUpdate
\* hooks were called with
Outcome(op, arg, err, cmd, typed, path, calls, hooks) ==
    [op |-> op, arg |-> arg, err |-> err, cmd |-> cmd, typed |-> typed,
     path |-> path, calls |-> calls, hooks |-> hooks]

\* No typed value (an error was thrown), and the value T{} of a method call
NoValue == [has |-> FALSE]
DefaultValue == [has |-> TRUE, default |-> TRUE]
Value(v) == [has |-> TRUE, default |-> FALSE, v |-> v]

-----------------------------------------------------------------------------
(* The methods the host registers (test.cpp)                               *)

\* DeusCommandToken::toInt
toInt(token) == Atol(token.str)

\* The sum of toInt over the tokens from position i on
RECURSIVE SumTokens(_, _)
SumTokens(tokens, i) ==
    IF i > Len(tokens) THEN 0 ELSE toInt(tokens[i]) + SumTokens(tokens, i + 1)

ReturnedStr == <<"r", "e", "t", "u", "r", "n", "e", "d">>

\* The callable run on the command: the error it throws and the returnStr
\* it leaves.  "myMethod" sets a fixed text; "add" wants two tokens or more
\* and returns the text of their sum.
MethodBody(func, cmd) ==
    IF func = "myMethod" THEN [err |-> "none", returnStr |-> ReturnedStr]
    ELSE IF cmd.argc <= 1 THEN [err |-> "MethodError", returnStr |-> cmd.returnStr]
    ELSE [err |-> "none", returnStr |-> IntToStr(SumTokens(cmd.tokens, 1))]

-----------------------------------------------------------------------------
(* runCommandAs                                                            *)

\* The value the write branch stores for the one token of the command
WrittenValue(type, token, junk) ==
    IF token.type = DEUS_VARTYPE_STRING THEN write(type, token.str, junk)
    ELSE IF token.type = DEUS_VARTYPE_INT THEN writeIntFromBuffer(type, token.str)
    ELSE IF token.type = DEUS_VARTYPE_DEC THEN writeDecimalFromBuffer(type, token.str)
    ELSE writeIntFromBuffer(type, token.str)

\* The returnStr the write branch leaves in the command object
WriteReturnStr(cmd, type, val) == cmd.returnStr

\* The returnStr the read branch leaves in the command object
ReadReturnStr(variable) == toString(variable)

\* Zero tokens is a read op, one token is a write op
IsReadOp(cmd) == cmd.argc = 0

\* A write op taken for any command with tokens
IsWriteOp_AtLeastOne(cmd) == cmd.argc >= 1

IsWriteOp(cmd) == cmd.argc = 1

\* The constant test on the wrong flag
IsConstant_Developer(variable) == HasFlag(variable.flags, DEUS_CVAR_DEVELOPER)

\* Writing to constants is disallowed
IsConstant(variable) == HasFlag(variable.flags, DEUS_CVAR_READONLY)

\* Zero tokens: a read
ReadBranch(op, line, cmd) ==
    LET variable == variableTable[cmd.target]
    IN  [out |-> Outcome(op, line, "none",
                         [cmd EXCEPT !.returnStr = ReadReturnStr(variable)],
                         Value(read(variable)), "read", <<>>, <<>>),
         storage |-> storage]

\* The write made before the constant test
WriteBranch_WriteFirst(op, line, cmd, j) ==
    LET variable == variableTable[cmd.target]
        type == CellType(variable.cell)
        val == WrittenValue(type, cmd.tokens[1], Indeterminate(type, j))
    IN  IF IsConstant(variable)
        THEN [out |-> Outcome(op, line, "ReadOnly", cmd, NoValue, "write", <<>>, <<>>),
              storage |-> [storage EXCEPT ![variable.cell] = val]]
        ELSE [out |-> Outcome(op, line, "none",
                              [cmd EXCEPT !.returnStr = WriteReturnStr(cmd, type, val)],
                              Value(val), "write", <<>>,
                              IF variable.onUpdate THEN <<val>> ELSE <<>>),
              storage |-> [storage EXCEPT ![variable.cell] = val]]

\* The hook fired before the assignment: it is handed the old value
WriteBranch_HookFirst(op, line, cmd, j) ==
    LET variable == variableTable[cmd.target]
        type == CellType(variable.cell)
        val == WrittenValue(type, cmd.tokens[1], Indeterminate(type, j))
    IN  IF IsConstant(variable)
        THEN [out |-> Outcome(op, line, "ReadOnly", cmd, NoValue, "write", <<>>, <<>>),
              storage |-> storage]
        ELSE [out |-> Outcome(op, line, "none",
                              [cmd EXCEPT !.returnStr = WriteReturnStr(cmd, type, val)],
                              Value(val), "write", <<>>,
                              IF variable.onUpdate THEN <<storage[variable.cell]>> ELSE <<>>),
              storage |-> [storage EXCEPT ![variable.cell] = val]]

\* One token: a write, refused for a constant
WriteBranch(op, line, cmd, j) ==
    LET variable == variableTable[cmd.target]
        type == CellType(variable.cell)
        val == WrittenValue(type, cmd.tokens[1], Indeterminate(type, j))
    IN  IF IsConstant(variable)
        THEN [out |-> Outcome(op, line, "ReadOnly", cmd, NoValue, "write", <<>>, <<>>),
              storage |-> storage]
        ELSE [out |-> Outcome(op, line, "none",
                              [cmd EXCEPT !.returnStr = WriteReturnStr(cmd, type, val)],
                              Value(val), "write", <<>>,
                              IF variable.onUpdate THEN <<val>> ELSE <<>>),
              storage |-> [storage EXCEPT ![variable.cell] = val]]

\* The method invoked, what it stored in returnStr dropped
MethodBranch_KeepsStr(op, line, cmd) ==
    LET r == MethodBody(methodTable[cmd.target], cmd)
    IN  [out |-> Outcome(op, line, r.err, cmd,
                         IF r.err = "none" THEN DefaultValue ELSE NoValue,
                         "method", <<cmd.target>>, <<>>),
         storage |-> storage]

\* The method of the target's name is invoked; T{} is returned
MethodBranch(op, line, cmd) ==
    LET r == MethodBody(methodTable[cmd.target], cmd)
    IN  [out |-> Outcome(op, line, r.err, [cmd EXCEPT !.returnStr = r.returnStr],
                         IF r.err = "none" THEN DefaultValue ELSE NoValue,
                         "method", <<cmd.target>>, <<>>),
         storage |-> storage]

Thrown(op, line, err, cmd) ==
    [out |-> Outcome(op, line, err, cmd, NoValue, "none", <<>>, <<>>),
     storage |-> storage]

\* An unknown target let through: no throw, T{} is returned
NoTarget_Silent(op, line, cmd) ==
    [out |-> Outcome(op, line, "none", cmd, DefaultValue, "none", <<>>, <<>>),
     storage |-> storage]

\* The target is no variable and no method
NoTarget(op, line, cmd) == Thrown(op, line, "NotFound", cmd)

\* The dispatch of runCommandAs on the parsed command; j selects the value
\* of an indeterminate read, should the command make one
Dispatch(op, line, cmd, j) ==
    LET isMethod == methodExists(cmd.target)
    IN  IF variableExists(cmd.target) /\ IsReadOp(cmd) THEN ReadBranch(op, line, cmd)
        ELSE IF variableExists(cmd.target) /\ IsWriteOp(cmd)
        THEN WriteBranch(op, line, cmd, j)
        ELSE IF variableExists(cmd.target) /\ ~isMethod
        THEN Thrown(op, line, "TooManyArguments", cmd)
        ELSE IF isMethod THEN MethodBranch(op, line, cmd)
        ELSE NoTarget(op, line, cmd)

-----------------------------------------------------------------------------
(* The host's calls: the inputs of the model                               *)

Name_x == <<"x">>
Name_b == <<"b">>
Name_c == <<"c">>
Name_h == <<"h">>
Name_add == <<"a", "d", "d">>
Name_nope == <<"n", "o", "p", "e">>

\* The registration calls of the host, in program order: an int with an
\* onUpdate hook, a bool, a constant C string and a method; then a second
\* registration of the int's name on other storage, a variable flagged as
\* unregistered, a second registration of the method's name, a method under
\* the int's name and a constant under the method's name
HostProgram ==
    <<[call |-> "registerCVar", name |-> Name_x, cell |-> "cx", desc |-> "an int",
       flags |-> DEUS_CVAR_DEFAULT, onUpdate |-> TRUE],
      [call |-> "registerCVar", name |-> Name_b, cell |-> "cb", desc |-> "a bool",
       flags |-> DEUS_CVAR_DEFAULT, onUpdate |-> FALSE],
      [call |-> "registerCVar", name |-> Name_c, cell |-> "cc",
       desc |-> "a constant C string",
       flags |-> DEUS_CVAR_DEFAULT + DEUS_CVAR_READONLY, onUpdate |-> FALSE],
      [call |-> "registerMethod", name |-> Name_add, func |-> "add",
       desc |-> "adds numbers"],
      [call |-> "registerCVar", name |-> Name_x, cell |-> "cy",
       desc |-> "a constant int", flags |-> DEUS_CVAR_READONLY, onUpdate |-> FALSE],
      [call |-> "registerCVar", name |-> Name_h, cell |-> "cx", desc |-> "hidden",
       flags |-> DEUS_CVAR_UNREGISTERED, onUpdate |-> FALSE],
      [call |-> "registerMethod", name |-> Name_add, func |-> "myMethod",
       desc |-> "returns a text"],
      [call |-> "registerMethod", name |-> Name_x, func |-> "add",
       desc |-> "adds to x"],
      [call |-> "registerCVar", name |-> Name_add, cell |-> "cy",
       desc |-> "a late constant", flags |-> DEUS_CVAR_READONLY, onUpdate |-> FALSE]>>

\* The assignments the host makes to its storage without the console
HostAssignments == {[cell |-> "cx", val |-> 321], [cell |-> "cb", val |-> FALSE]}

\* The names the host asks getCVar for
QueryNames == {Name_x, Name_b, Name_c, Name_add, Name_nope}

\* The names the host asks getHelp for
HelpNames == {Name_x, Name_c, Name_add, Name_h, Name_nope}

\* What the memory of an uninitialized target buffer may hold
GarbageTargets == {<<>>, Name_x, Name_add, <<"?">>}

\* n copies of the character c
Rep(c, n) == [i \in 1..n |-> c]

\* The pieces joined by single blanks
RECURSIVE Join(_)
Join(pieces) ==
    IF pieces = <<>> THEN <<>>
    ELSE IF Len(pieces) = 1 THEN pieces[1]
    ELSE pieces[1] \o <<SP>> \o Join(Tail(pieces))

\* The argument words of the command lines
W_42 == <<"4", "2">>
W_m5 == <<"-", "5">>
W_true == <<"t", "r", "u", "e">>
W_false == <<"f", "a", "l", "s", "e">>
W_dec == <<"1", ".", "5">>
W_abc == <<"a", "b", "c">>
W_3 == <<"3">>
W_5 == <<"5">>
W_qa == <<"'", "a">>
W_bq == <<"b", "'">>

Targets == {Name_x, Name_b, Name_c, Name_add, Name_nope}

ArgLists ==
    {<<>>, <<W_42>>, <<W_m5>>, <<W_true>>, <<W_false>>, <<W_dec>>, <<W_abc>>,
     <<W_qa, W_bq>>, <<W_qa>>, <<W_3, W_5>>}

\* The line of a target and its argument words
Cmd(target, args) == Join(<<target>> \o args)

\* The line padded with blanks at its end to n characters
PadTo(line, n) == line \o Rep(SP, n - Len(line))

\* How many arguments beyond MaxTokens the longest command line has
ExtraArgs == 1

\* The command lines the host runs: every target with every argument list,
\* lines with white space around them or that are nothing else, lines with
\* MaxTokens arguments and more, and lines one character short of
\* MaxInputLen, of that size and above it
CommandLines ==
    {Cmd(t, a) : t \in Targets, a \in ArgLists}
    \cup {<<>>, <<SP, SP>>, <<TAB>>}
    \cup {<<SP>> \o Cmd(Name_x, <<W_42>>), <<TAB>> \o Cmd(Name_x, <<W_42>>),
          Cmd(Name_x, <<W_42>>) \o <<SP, NL>>, Name_x \o <<SP, SP>> \o W_42}
    \cup {Cmd(t, [i \in 1..n |-> W_3]) :
            t \in {Name_x, Name_add}, n \in MaxTokens..(MaxTokens + ExtraArgs)}
    \cup {PadTo(Cmd(t, <<W_42>>), n) :
            t \in {Name_x, Name_nope}, n \in (MaxInputLen - 1)..(MaxInputLen + ExtraArgs)}
    \cup {Rep(SP, n - 4) \o Cmd(Name_x, <<W_42>>) :
            n \in (MaxInputLen - 1)..MaxInputLen}

\* The argument words of the lines the host has parsed
W_12 == <<"1", "2">>
W_q == <<"'">>
W_qcq == <<"'", "c", "'">>
W_dqd == <<DQ, "d">>
W_edq == <<"e", DQ>>

QuoteWords == {W_true, W_false, W_12, W_dec, W_abc, W_qa, W_bq, W_q, W_qcq, W_dqd, W_edq}

\* The words that try the classifier: periods in every place, a sign, a
\* letter among digits, other spellings of the boolean literals
ClassifierWords ==
    {<<"1", ".", "2", ".", "3">>, <<".">>, <<"5", ".">>, <<".", "5">>, <<"1", "a">>,
     W_m5, <<"T", "r", "u", "e">>, <<"t", "r", "u", "e", "s">>, <<"0">>,
     <<"0", "0", "7">>, <<"a", TAB, "b">>}

\* The most argument words a parsed line is built from
MaxArgs == 3

\* The sequences of at most n elements of S
RECURSIVE SeqsUpTo(_, _)
SeqsUpTo(S, n) ==
    IF n = 0 THEN {<<>>}
    ELSE LET shorter == SeqsUpTo(S, n - 1)
         IN  shorter \cup {Append(q, w) : q \in {r \in shorter : Len(r) = n - 1}, w \in S}

\* The lines the host has parsed: a target with every sequence of at most
\* MaxArgs words, the classifier's words, two blanks between words, and the
\* lines the host runs
ParseLines ==
    {Cmd(Name_x, a) : a \in SeqsUpTo(QuoteWords, MaxArgs)}
    \cup {Cmd(Name_x, <<w>>) : w \in ClassifierWords}
    \cup {Name_x \o <<SP>> \o W_qa \o <<SP, SP>> \o W_12 \o <<SP, SP, SP>> \o W_bq}
    \cup CommandLines

-----------------------------------------------------------------------------
(* The state machine                                                       *)

Init ==
    /\ variableTable = <<>>
    /\ methodTable = <<>>
    /\ helpTable = <<>>
    /\ storage = InitStorage
    /\ nreg = 0
    /\ alive = TRUE
    /\ last = Outcome("none", <<>>, "none", NoCommand, NoValue, "none", <<>>, <<>>)

\* registerCVar(name, value, description, flags, onUpdate)
RegisterCVar(req) ==
    /\ alive
    /\ nreg' = nreg + 1
    /\ IF HasFlag(req.flags, DEUS_CVAR_UNREGISTERED) \/ variableExists(req.name)
       THEN UNCHANGED <<variableTable, helpTable>>
       ELSE /\ variableTable' = Put(variableTable, req.name,
                                    [flags |-> req.flags, cell |-> req.cell,
                                     onUpdate |-> req.onUpdate])
            /\ helpTable' = Put(helpTable, req.name, req.desc)
    /\ last' = Outcome("registerCVar", req.name, "none", NoCommand, NoValue, "none",
                       <<>>, <<>>)
    /\ UNCHANGED <<methodTable, storage, alive>>

\* registerMethod putting the callable whether or not the name is taken
RegisterMethod_Overwrite(req) ==
    /\ alive
    /\ nreg' = nreg + 1
    /\ methodTable' = Put(methodTable, req.name, req.func)
    /\ helpTable' = Put(helpTable, req.name, req.desc)
    /\ last' = Outcome("registerMethod", req.name, "none", NoCommand, NoValue, "none",
                       <<>>, <<>>)
    /\ UNCHANGED <<variableTable, storage, alive>>

\* registerMethod(name, func, description)
RegisterMethod(req) ==
    /\ alive
    /\ nreg' = nreg + 1
    /\ IF methodExists(req.name)
       THEN UNCHANGED <<methodTable, helpTable>>
       ELSE /\ methodTable' = Put(methodTable, req.name, req.func)
            /\ helpTable' = Put(helpTable, req.name, req.desc)
    /\ last' = Outcome("registerMethod", req.name, "none", NoCommand, NoValue, "none",
                       <<>>, <<>>)
    /\ UNCHANGED <<variableTable, storage, alive>>

\* getCVar<T>(name), through getVariable
GetCVar(name) ==
    /\ alive
    /\ last' = IF variableExists(name)
               THEN Outcome("getCVar", name, "none", NoCommand,
                            Value(read(variableTable[name])), "none", <<>>, <<>>)
               ELSE Outcome("getCVar", name, "VariableNotExist", NoCommand, NoValue,
                            "none", <<>>, <<>>)
    /\ UNCHANGED <<variableTable, methodTable, helpTable, storage, nreg, alive>>

\* getHelp(key): the description of a key the help table holds (the host's
\* descriptions hold no NUL character, so c_str() gives all of it).  For a
\* key it lacks the function returns nullptr as a std::string; building a
\* std::string from a null pointer is undefined: the library throws
\* std::logic_error, or it reads through the pointer and the process dies.
GetHelp(key) ==
    /\ alive
    /\ IF key \in DOMAIN helpTable
       THEN /\ last' = Outcome("getHelp", key, "none", NoCommand,
                               Value(helpTable[key]), "none", <<>>, <<>>)
            /\ UNCHANGED alive
       ELSE \/ /\ last' = Outcome("getHelp", key, "LogicError", NoCommand, NoValue,
                                  "none", <<>>, <<>>)
               /\ UNCHANGED alive
            \/ /\ last' = Outcome("getHelp", key, "Crash", NoCommand, NoValue,
                                  "none", <<>>, <<>>)
               /\ alive' = FALSE
    /\ UNCHANGED <<variableTable, methodTable, helpTable, storage, nreg>>

\* The host assigns to its own storage (TDeusStaticConsoleVariable::set)
HostSet(a) ==
    /\ alive
    /\ storage[a.cell] # a.val
    /\ storage' = [storage EXCEPT ![a.cell] = a.val]
    /\ last' = Outcome("set", <<>>, "none", NoCommand, NoValue, "none", <<>>, <<>>)
    /\ UNCHANGED <<variableTable, methodTable, helpTable, nreg, alive>>

\* The call ends in the failed assert of parseCommand: the process aborts
Abort(op, line, cmd) ==
    /\ alive' = FALSE
    /\ last' = Outcome(op, line, "AssertFail", cmd, NoValue, "none", <<>>, <<>>)
    /\ UNCHANGED <<variableTable, methodTable, helpTable, storage, nreg>>

\* parseCommand on a fresh command object, for every line the host runs
\* and for every line it has parsed
RunFresh == [line \in CommandLines |-> parseCommand(line, FreshCommand)]

ParseFresh == [line \in ParseLines |-> parseCommand(line, FreshCommand)]

\* What reading the target buffer gives: the target parseCommand copied
\* into it or, if it copied none, what the memory held
TargetRead(cmd) == IF cmd.target = Uninitialized THEN GarbageTargets ELSE {cmd.target}

\* Whether the dispatch of the command may read an indeterminate value: a
\* write of a String token
ReadsIndeterminate(cmd) ==
    /\ cmd.argc = 1
    /\ cmd.tokens[1].type = DEUS_VARTYPE_STRING

\* runCommandAs<T>(command) on a fresh command object, which is also what
\* runCommand(command) runs before it returns the returnStr.  The assert at
\* the end of parseCommand aborts the process unless the build defines
\* NDEBUG.
RunCommand(line) ==
    /\ alive
    /\ LET p == RunFresh[line]
       IN  IF p.err # "none"
           THEN /\ last' = Thrown("runCommand", line, p.err, p.cmd).out
                /\ UNCHANGED <<variableTable, methodTable, helpTable, storage, nreg, alive>>
           ELSE \/ /\ p.isStringParsing
                   /\ Abort("runCommand", line, p.cmd)
                \/ \E cmdTarget \in TargetRead(p.cmd),
                      j \in (IF ReadsIndeterminate(p.cmd) THEN 1..JunkValues ELSE {1}) :
                      LET r == Dispatch("runCommand", line,
                                        [p.cmd EXCEPT !.target = cmdTarget], j)
                      IN  /\ last' = r.out
                          /\ storage' = r.storage
                          /\ UNCHANGED <<variableTable, methodTable, helpTable, nreg, alive>>

\* parseCommand(inputCmd, commandResult) called by the host on a fresh
\* command object
ParseCall(line) ==
    /\ alive
    /\ LET p == ParseFresh[line]
       IN  IF p.err # "none"
           THEN /\ last' = Thrown("parseCommand", line, p.err, p.cmd).out
                /\ UNCHANGED <<variableTable, methodTable, helpTable, storage, nreg, alive>>
           ELSE \/ /\ p.isStringParsing
                   /\ Abort("parseCommand", line, p.cmd)
                \/ /\ last' = Outcome("parseCommand", line, "none", p.cmd, NoValue,
                                      "none", <<>>, <<>>)
                   /\ UNCHANGED <<variableTable, methodTable, helpTable, storage, nreg, alive>>

Next ==
    \/ /\ nreg < Len(HostProgram)
       /\ HostProgram[nreg + 1].call = "registerCVar"
       /\ RegisterCVar(HostProgram[nreg + 1])
    \/ /\ nreg < Len(HostProgram)
       /\ HostProgram[nreg + 1].call = "registerMethod"
       /\ RegisterMethod(HostProgram[nreg + 1])
    \/ \E name \in QueryNames : GetCVar(name)
    \/ \E key \in HelpNames : GetHelp(key)
    \/ \E a \in HostAssignments : HostSet(a)
    \/ \E line \in CommandLines : RunCommand(line)

Spec == Init /\ [][Next]_vars

\* The tokenizer alone: the host has a line at hand and parses it
InitParse ==
    /\ variableTable = <<>>
    /\ methodTable = <<>>
    /\ helpTable = <<>>
    /\ storage = InitStorage
    /\ nreg = 0
    /\ alive = TRUE
    /\ \E line \in ParseLines :
          last = Outcome("input", line, "none", NoCommand, NoValue, "none", <<>>, <<>>)

NextParse == last.op = "input" /\ ParseCall(last.arg)

SpecParse == InitParse /\ [][NextParse]_vars

-----------------------------------------------------------------------------
(* Properties                                                              *)

IsRun == last.op = "runCommand"

\* The call went past parseCommand: it neither refused the line nor aborted
Parsed == last.err \notin {"InputTooLarge", "AssertFail"}

\* The variables of the table that are not constant and hold an int
WritableInts ==
    {n \in DOMAIN variableTable :
        ~HasFlag(variableTable[n].flags, DEUS_CVAR_READONLY)
        /\ CellType(variableTable[n].cell) = "int"}

Constants ==
    {n \in DOMAIN variableTable : HasFlag(variableTable[n].flags, DEUS_CVAR_READONLY)}

Cell(n) == variableTable[n].cell

\* The values whose decimal text the host's command lines write
RoundTripValues == {42, 0 - 5}

\* C1: after the command "<name> <decimal text of v>" on an int variable
\* that is not constant, for a value v of int, negative ones included, the
\* variable holds v and v is the typed value returned.
C1_RoundTrip ==
    \A n \in WritableInts : \A v \in RoundTripValues :
        (IsRun /\ last.arg = Cmd(n, <<IntToStr(v)>>))
            => /\ last.err = "none"
               /\ storage[Cell(n)] = v
               /\ last.typed = Value(v)

\* C2: a command with one token on a constant throws the read-only error
\* whatever the kind of the token, and no command changes the storage of a
\* constant.
C2_ReadOnly ==
    [][last'.op = "runCommand" =>
         \A n \in Constants :
            /\ storage'[Cell(n)] = storage[Cell(n)]
            /\ (last'.cmd.target = n /\ last'.cmd.argc = 1 /\ last'.err # "AssertFail")
                  => (last'.err = "ReadOnly" /\ last'.hooks = <<>>)]_vars

\* C2's case: a decimal token was sent to a constant and refused
C2_Witness ==
    /\ IsRun /\ last.err = "ReadOnly"
    /\ last.cmd.target = Name_c
    /\ last.cmd.tokens[1].type = DEUS_VARTYPE_DEC

\* C3: a write command with an integer token on an int variable that is not
\* constant returns the text of the new value, the text a read command
\* returns next.
C3_WriteReturnsText ==
    \A n \in WritableInts :
        (IsRun /\ last.err = "none" /\ last.path = "write" /\ last.cmd.target = n
         /\ last.cmd.tokens[1].type = DEUS_VARTYPE_INT)
            => last.cmd.returnStr = IntToStr(storage[Cell(n)])

\* The value a text shows, by the type of the storage
Shows(type, text, val) ==
    IF type = "bool" THEN text = (IF val THEN <<"1">> ELSE <<"0">>)
    ELSE IF type = "int" THEN text # <<>> /\ Atol(text) = val
    ELSE text = val

\* What getCVar, the read command and the write command hand back agrees
\* with the storage
LiveView ==
    /\ (last.op = "getCVar" /\ last.err = "none")
          => last.typed = Value(storage[Cell(last.arg)])
    /\ (IsRun /\ last.err = "none" /\ last.path = "read")
          => /\ last.typed = Value(storage[Cell(last.cmd.target)])
             /\ Shows(CellType(Cell(last.cmd.target)), last.cmd.returnStr,
                      storage[Cell(last.cmd.target)])
    /\ (IsRun /\ last.err = "none" /\ last.path = "write")
          => last.typed = Value(storage[Cell(last.cmd.target)])

C5_DispatchByArgc ==
    [][(last'.op = "runCommand" /\ Parsed' /\ last'.cmd.target \in DOMAIN variableTable) =>
         LET c == last'.cmd
             n == last'.cmd.target
         IN  /\ c.argc = 0 =>
                  /\ last'.path = "read" /\ last'.calls = <<>> /\ last'.err = "none"
                  /\ storage' = storage
             /\ (c.argc = 1 /\ n \in Constants) =>
                  /\ last'.path = "write" /\ last'.calls = <<>>
                  /\ last'.err = "ReadOnly"
                  /\ storage' = storage
             /\ (c.argc = 1 /\ n \notin Constants) =>
                  /\ last'.path = "write" /\ last'.calls = <<>> /\ last'.err = "none"
                  /\ storage'[Cell(n)] = last'.typed.v
                  /\ (c.tokens[1].type = DEUS_VARTYPE_INT /\ n \in WritableInts)
                        => storage'[Cell(n)] = Atol(c.tokens[1].str)
             /\ (c.argc >= 2 /\ n \notin DOMAIN methodTable) =>
                  /\ last'.err = "TooManyArguments" /\ last'.calls = <<>>
                  /\ storage' = storage
             /\ (c.argc >= 2 /\ n \in DOMAIN methodTable) =>
                  /\ last'.path = "method" /\ last'.calls = <<n>> /\ last'.err = "none"
                  /\ storage' = storage]_vars

\* C5's case: two tokens on the name of a variable and of a method
C5_Witness ==
    /\ IsRun /\ last.cmd.target = Name_x /\ last.cmd.argc = 2
    /\ Name_x \in DOMAIN variableTable
    /\ last.path = "method" /\ last.cmd.returnStr = <<"8">>

Registered == DOMAIN variableTable \cup DOMAIN methodTable

\* C6: for a name in neither table, getCVar and a command of any number
\* of tokens throw a not-found error and change no storage and no table.
C6_NotFound ==
    [][/\ (last'.op = "getCVar" /\ last'.arg \notin Registered) =>
            /\ last'.err = "VariableNotExist"
            /\ UNCHANGED <<variableTable, methodTable, helpTable, storage>>
       /\ (last'.op = "runCommand" /\ Parsed' /\ last'.cmd.target \notin Registered) =>
            /\ last'.err = "NotFound"
            /\ last'.calls = <<>> /\ last'.hooks = <<>>
            /\ UNCHANGED <<variableTable, methodTable, helpTable, storage>>]_vars

\* C6's case: a command with two tokens on an unknown name
C6_Witness ==
    /\ IsRun /\ last.cmd.target = Name_nope /\ last.cmd.argc = 2
    /\ last.err = "NotFound"

\* C7: a line is refused as too large exactly when it has MaxInputLen
\* characters or more as passed, white space included; a refused line
\* leaves the command object without target and tokens and changes nothing.
C7_InputTooLarge ==
    [][last'.op = "runCommand" =>
         /\ last'.err = "InputTooLarge" <=> Len(last'.arg) >= MaxInputLen
         /\ last'.err = "InputTooLarge" =>
               /\ last'.cmd = FreshCommand
               /\ last'.path = "none" /\ last'.calls = <<>> /\ last'.hooks = <<>>
               /\ UNCHANGED <<variableTable, methodTable, helpTable, storage>>]_vars

\* C7's case: a line of MaxInputLen characters, most of them blanks
C7_Witness ==
    /\ IsRun /\ last.err = "InputTooLarge"
    /\ Len(last.arg) = MaxInputLen
    /\ Len(trimStr(last.arg)) < MaxInputLen

\* C8: a parsed command has at most MaxTokens tokens.
C8_AtMostMaxTokens ==
    (last.op = "parseCommand" /\ last.err = "none") => last.cmd.argc <= MaxTokens

\* The words of a line after its target
Args(line) == IF StrTok(line) = <<>> THEN <<>> ELSE Tail(StrTok(line))

OnlyBlanks(line) == \A i \in 1..Len(line) : IsSpace(line[i]) => line[i] = SP

PlainWord(w) == ~IsQuote(w[1])

EndsQuote(w) == IsQuote(w[Len(w)])

\* Words that are a quoted run: the first begins with a quotation mark, the
\* last ends with one, and none between them does
ClosedRun(ps) ==
    /\ Len(ps) >= 2
    /\ IsQuote(ps[1][1]) /\ EndsQuote(ps[Len(ps)])
    /\ \A i \in 2..(Len(ps) - 1) : ~EndsQuote(ps[i])

\* Words that open a quoted run and do not close it
OpenRun(ps) ==
    /\ Len(ps) >= 1
    /\ IsQuote(ps[1][1])
    /\ \A i \in 2..Len(ps) : ~EndsQuote(ps[i])

\* The words joined by single blanks, less the first and the last character
RunText(ps) == SubSeq(Join(ps), 2, Len(Join(ps)) - 1)

\* C9: among plain words, a quoted run of two words or more gives one
\* String token, the words joined by single blanks without the two
\* quotation marks, in the place of the run; as long as the run is open no
\* token is added for its words.
C9_QuotedRun ==
    (last.op = "parseCommand" /\ last.err = "none" /\ OnlyBlanks(last.arg)) =>
        LET a == Args(last.arg)
            t == last.cmd.tokens
        IN  \A i \in 0..Len(a) : \A k \in 1..(Len(a) - i) :
                ((\A m \in 1..i : PlainWord(a[m]))
                 /\ (\A m \in (i + k + 1)..Len(a) : PlainWord(a[m])))
                => /\ ClosedRun(SubSeq(a, i + 1, i + k)) =>
                        /\ Len(t) = Len(a) - k + 1
                        /\ t[i + 1] = [str |-> RunText(SubSeq(a, i + 1, i + k)),
                                       type |-> DEUS_VARTYPE_STRING]
                   /\ (OpenRun(SubSeq(a, i + 1, i + k)) /\ i + k = Len(a)) => Len(t) = i

\* C9's case: a run of three words, a number among them, more than one
\* blank between them
C9_Witness ==
    /\ last.op = "parseCommand" /\ last.err = "none"
    /\ Len(Args(last.arg)) = 3
    /\ Len(last.arg) > Len(Cmd(Name_x, Args(last.arg)))
    /\ last.cmd.tokens = <<[str |-> <<"a", " ", "1", "2", " ", "b">>,
                            type |-> DEUS_VARTYPE_STRING]>>

\* The variables of the table that are not constant and hold a bool
WritableBools ==
    {n \in DOMAIN variableTable :
        ~HasFlag(variableTable[n].flags, DEUS_CVAR_READONLY)
        /\ CellType(variableTable[n].cell) = "bool"}

\* C10: on a bool or int variable that is not constant, "<name> true"
\* leaves true (1) and "<name> false" leaves false (0), the one token of
\* the command being the text "1" or "0".
C10_BoolLiterals ==
    /\ \A n \in WritableBools :
          /\ (IsRun /\ last.arg = Cmd(n, <<W_true>>)) =>
                (last.err = "none" /\ storage[Cell(n)] = TRUE
                 /\ last.cmd.tokens = <<[str |-> <<"1">>, type |-> DEUS_VARTYPE_BOOL_TRUE]>>)
          /\ (IsRun /\ last.arg = Cmd(n, <<W_false>>)) =>
                (last.err = "none" /\ storage[Cell(n)] = FALSE
                 /\ last.cmd.tokens = <<[str |-> <<"0">>, type |-> DEUS_VARTYPE_BOOL_FALSE]>>)
    /\ \A n \in WritableInts :
          /\ (IsRun /\ last.arg = Cmd(n, <<W_true>>)) =>
                (last.err = "none" /\ storage[Cell(n)] = 1
                 /\ last.cmd.tokens = <<[str |-> <<"1">>, type |-> DEUS_VARTYPE_BOOL_TRUE]>>)
          /\ (IsRun /\ last.arg = Cmd(n, <<W_false>>)) =>
                (last.err = "none" /\ storage[Cell(n)] = 0
                 /\ last.cmd.tokens = <<[str |-> <<"0">>, type |-> DEUS_VARTYPE_BOOL_FALSE]>>)

\* C10's case: the bool was true and "b false" was run
C10_Witness ==
    /\ IsRun /\ last.arg = Cmd(Name_b, <<W_false>>)
    /\ last.err = "none"
    /\ storage["cb"] = FALSE

\* The names that are registered as a method and not as a variable
MethodOnly == DOMAIN methodTable \ DOMAIN variableTable

\* C11: a command on a target that is a method and no variable invokes that
\* method once, on the tokens of the line in their order, and runs no hook
\* and changes no storage and no table; what the method stored in returnStr
\* is the text returned ("add 3 5" returns "8") and the typed value is T{};
\* the error the method throws ("add" with fewer than two tokens) is the
\* error of the call.
C11_MethodCall ==
    [][(last'.op = "runCommand" /\ Parsed' /\ last'.cmd.target \in MethodOnly) =>
         LET c == last'.cmd
         IN  /\ last'.path = "method" /\ last'.calls = <<c.target>>
             /\ last'.hooks = <<>>
             /\ UNCHANGED <<variableTable, methodTable, helpTable, storage>>
             /\ (methodTable[c.target] = "add" /\ c.argc <= 1) =>
                   /\ last'.err = "MethodError"
                   /\ last'.typed = NoValue
                   /\ c.returnStr = <<>>
             /\ (methodTable[c.target] = "add" /\ c.argc >= 2) =>
                   /\ last'.err = "none"
                   /\ last'.typed = DefaultValue
                   /\ c.returnStr = IntToStr(SumTokens(c.tokens, 1))
             /\ last'.arg = Cmd(Name_add, <<W_3, W_5>>) =>
                   /\ c.tokens = <<[str |-> W_3, type |-> DEUS_VARTYPE_INT],
                                   [str |-> W_5, type |-> DEUS_VARTYPE_INT]>>
                   /\ c.returnStr = <<"8">>
             /\ last'.arg = Cmd(Name_add, [i \in 1..MaxTokens |-> W_3]) =>
                   /\ c.tokens = [i \in 1..MaxTokens |->
                                     [str |-> W_3, type |-> DEUS_VARTYPE_INT]]
                   /\ c.returnStr = IntToStr(3 * MaxTokens)]_vars

\* C11's case: "add 3 5" was run while add is a method only and gave "8"
C11_Witness ==
    /\ IsRun /\ last.arg = Cmd(Name_add, <<W_3, W_5>>)
    /\ Name_add \in MethodOnly
    /\ last.calls = <<Name_add>>
    /\ last.cmd.returnStr = <<"8">>
    /\ last.typed = DefaultValue

\* The errors runCommandAs and parseCommand throw themselves
DispatcherErrors == {"InputTooLarge", "NotFound", "ReadOnly", "TooManyArguments"}

\* C12: a command that ends in one of the dispatcher's own errors leaves
\* every storage cell and the three tables as they were, has run no hook and
\* no method, and leaves nothing else behind that a later call reads.
C12_ErrorsChangeNothing ==
    [][(last'.op = "runCommand" /\ last'.err \in DispatcherErrors) =>
         /\ UNCHANGED <<variableTable, methodTable, helpTable, storage, nreg, alive>>
         /\ last'.hooks = <<>>
         /\ last'.calls = <<>>
         /\ last'.typed = NoValue]_vars

\* C12's case: a write to a constant was refused after the host and the
\* console had changed the storage
C12_Witness ==
    /\ IsRun /\ last.err = "ReadOnly"
    /\ last.cmd.target = Name_c /\ last.cmd.argc = 1
    /\ storage["cx"] = 42 /\ storage["cb"] = FALSE
    /\ storage["cc"] = InitStorage["cc"]

\* C13: getHelp gives the description held for a name of the help table;
\* for a name that was never registered it gives an empty result, throws
\* nothing and the process lives on; it changes no table.
C13_GetHelp ==
    [][last'.op = "getHelp" =>
         /\ UNCHANGED <<variableTable, methodTable, helpTable, storage>>
         /\ last'.arg \in DOMAIN helpTable =>
               (last'.err = "none" /\ last'.typed = Value(helpTable[last'.arg]))
         /\ last'.arg \notin DOMAIN helpTable =>
               (last'.err = "none" /\ alive')]_vars

\* C14: registerCVar with the unregistered flag or with a name the variable
\* table holds, and registerMethod with a name the method table holds,
\* change none of the three tables (and no storage): the name keeps the
\* storage, the flags, the callable and the description it had.
C14_RegistrationNoOp ==
    [][(last'.op \in {"registerCVar", "registerMethod"}) =>
         LET req == HostProgram[nreg + 1]
         IN  /\ (req.call = "registerCVar"
                 /\ (HasFlag(req.flags, DEUS_CVAR_UNREGISTERED)
                     \/ req.name \in DOMAIN variableTable))
                   => UNCHANGED <<variableTable, methodTable, helpTable, storage>>
             /\ (req.call = "registerMethod" /\ req.name \in DOMAIN methodTable)
                   => UNCHANGED <<variableTable, methodTable, helpTable, storage>>]_vars

\* C14's case: the three registrations that are no-ops have been made; the
\* int is still bound to its first storage with its hook, the method name to
\* its first callable and description, and the unregistered name is nowhere
C14_Witness ==
    /\ last.op = "registerMethod" /\ last.arg = Name_add /\ nreg = 7
    /\ variableTable[Name_x] = [flags |-> DEUS_CVAR_DEFAULT, cell |-> "cx", onUpdate |-> TRUE]
    /\ helpTable[Name_x] = "an int"
    /\ methodTable[Name_add] = "add"
    /\ helpTable[Name_add] = "adds numbers"
    /\ Name_h \notin DOMAIN variableTable \cup DOMAIN helpTable

\* C15: for a line shorter than MaxInputLen the tokenizing loop ends with
\* isStringParsing false: the assert at the end of parseCommand does not
\* fail.
C15_AssertHolds ==
    (last.op = "parseCommand" /\ Len(last.arg) < MaxInputLen) => last.err # "AssertFail"

\* A word that is a whole quoted string: it begins and ends with a
\* quotation mark and has both
QuotedWord(w) == Len(w) >= 2 /\ IsQuote(w[1]) /\ EndsQuote(w)

\* C16: a word that is a whole quoted string, after plain words, gives one
\* String token, the characters between its quotation marks, in its place,
\* and the plain words after it give their tokens as well.
C16_QuotedWord ==
    (last.op = "parseCommand" /\ Len(last.arg) < MaxInputLen /\ OnlyBlanks(last.arg)) =>
        LET a == Args(last.arg)
            t == last.cmd.tokens
        IN  \A i \in 1..Len(a) :
                ((\A m \in 1..(i - 1) : PlainWord(a[m])) /\ QuotedWord(a[i]))
                => /\ last.err = "none"
                   /\ Len(t) >= i
                   /\ t[i] = [str |-> SubSeq(a[i], 2, Len(a[i]) - 1),
                              type |-> DEUS_VARTYPE_STRING]
                   /\ (\A m \in (i + 1)..Len(a) : PlainWord(a[m])) => Len(t) = Len(a)

AllDigits(w) == \A i \in 1..Len(w) : IsDigit(w[i])

Periods(w) == Cardinality({i \in 1..Len(w) : w[i] = DOT})

DigitsAndPeriods(w) == \A i \in 1..Len(w) : IsDigit(w[i]) \/ w[i] = DOT

\* The token of a word outside a quoted run, by the rule of five kinds
KindOf(w) ==
    IF w = W_true THEN [str |-> <<"1">>, type |-> DEUS_VARTYPE_BOOL_TRUE]
    ELSE IF w = W_false THEN [str |-> <<"0">>, type |-> DEUS_VARTYPE_BOOL_FALSE]
    ELSE IF Len(w) > 0 /\ AllDigits(w) THEN [str |-> w, type |-> DEUS_VARTYPE_INT]
    ELSE IF DigitsAndPeriods(w) /\ Periods(w) = 1 THEN [str |-> w, type |-> DEUS_VARTYPE_DEC]
    ELSE [str |-> w, type |-> DEUS_VARTYPE_STRING]

\* C17: every word before the first word that begins with a quotation mark
\* gives one token, in its place: "1" as BoolTrue and "0" as BoolFalse for
\* exactly true and false; else the word as Integer if it is digits only;
\* else as Decimal if it is digits and periods with exactly one period;
\* else as String.
C17_Classifier ==
    (last.op = "parseCommand" /\ last.err = "none" /\ OnlyBlanks(last.arg)) =>
        LET a == Args(last.arg)
            t == last.cmd.tokens
        IN  \A i \in 1..Len(a) :
                (\A m \in 1..i : PlainWord(a[m]))
                => (Len(t) >= i /\ t[i] = KindOf(a[i]))

\* C17's case: a word of digits with two periods was parsed as a String
C17_Witness ==
    /\ last.op = "parseCommand" /\ last.err = "none"
    /\ last.arg = Cmd(Name_x, <<(<<"1", ".", "2", ".", "3">>)>>)
    /\ last.cmd.tokens = <<[str |-> <<"1", ".", "2", ".", "3">>,
                            type |-> DEUS_VARTYPE_STRING]>>

\* The numeric literals of the command grammar: digits, or digits, a period
\* and digits
NumericLiteral(w) ==
    /\ Len(w) > 0
    /\ DigitsAndPeriods(w)
    /\ Periods(w) <= 1
    /\ w[1] # DOT /\ w[Len(w)] # DOT

\* C18: a word before the first word that begins with a quotation mark gets
\* the kind Integer or Decimal only if it is a numeric literal of the
\* grammar; a word with a period that has no digit before it or after it is
\* a String token.
C18_NumericGrammar ==
    (last.op = "parseCommand" /\ last.err = "none" /\ OnlyBlanks(last.arg)) =>
        LET a == Args(last.arg)
            t == last.cmd.tokens
        IN  \A i \in 1..Len(a) :
                (\A m \in 1..i : PlainWord(a[m]))
                => /\ Len(t) >= i
                   /\ t[i].type \in {DEUS_VARTYPE_INT, DEUS_VARTYPE_DEC}
                         => NumericLiteral(a[i])
                   /\ (DigitsAndPeriods(a[i]) /\ ~NumericLiteral(a[i]))
                         => t[i] = [str |-> a[i], type |-> DEUS_VARTYPE_STRING]

\* C19: a write command that succeeds on a variable with an onUpdate hook
\* runs the hook once, on the value the storage holds when the command
\* returns; a one-token command on such a variable that is not constant
\* always succeeds; no other command (a read, a refused write, too many
\* arguments, a method, an unknown target) and no write to a variable
\* without hook runs any hook.
C19_OnUpdate ==
    [][last'.op = "runCommand" =>
         LET c == last'.cmd
             wrote == last'.err = "none" /\ last'.path = "write"
         IN  /\ (wrote /\ variableTable[c.target].onUpdate) =>
                   last'.hooks = <<storage'[Cell(c.target)]>>
             /\ (wrote /\ ~variableTable[c.target].onUpdate) => last'.hooks = <<>>
             /\ ~wrote => last'.hooks = <<>>
             /\ (Parsed' /\ c.argc = 1 /\ c.target \in DOMAIN variableTable
                 /\ c.target \notin Constants)
                   => wrote]_vars

\* C19's case: "x 42" was run on the int with the hook, which saw 42
C19_Witness ==
    /\ IsRun /\ last.arg = Cmd(Name_x, <<W_42>>)
    /\ Name_x \in DOMAIN variableTable
    /\ variableTable[Name_x].onUpdate
    /\ storage["cx"] = 42
    /\ last.hooks = <<42>>

\* C20: a write command whose one token is a String, on a variable of
\* arithmetic type, leaves the storage as it was or holding the number the
\* text of the token stands for, never any other value.
C20_NoReinterpretedText ==
    [][(/\ last'.op = "runCommand" /\ last'.err = "none" /\ last'.path = "write"
        /\ last'.cmd.tokens[1].type = DEUS_VARTYPE_STRING
        /\ CellType(Cell(last'.cmd.target)) \in ArithmeticTypes) =>
         LET cell == Cell(last'.cmd.target)
             text == last'.cmd.tokens[1].str
         IN  \/ storage'[cell] = storage[cell]
             \/ storage'[cell] = CastLong(CellType(cell), Atol(text))]_vars

\* The lines that are empty or made only of blanks
BlankLine(line) == \A i \in 1..Len(line) : line[i] = SP

\* C21: a command line that is empty or made only of blanks gives a command
\* with an empty target and no token and throws the not-found error, with
\* no variable read or written and no method invoked, on every call.
C21_BlankLine ==
    [][(last'.op = "runCommand" /\ BlankLine(last'.arg)) =>
         /\ last'.cmd.target = <<>>
         /\ last'.cmd.argc = 0 /\ last'.cmd.tokens = <<>>
         /\ last'.err = "NotFound"
         /\ last'.path = "none" /\ last'.calls = <<>> /\ last'.hooks = <<>>
         /\ storage' = storage]_vars

\* The line without the white space before its first and after its last
\* other character, and with one blank for every run of blanks
Normalized(line) ==
    LET first == SkipSpace(line, 1)
    IN  IF first > Len(line) THEN <<>>
        ELSE Join(StrTok(SubSeq(line, first, TrimEnd(line, first, Len(line)))))

\* C22: for a line that is not refused as too large, the target and the
\* tokens of the command are those of the normalized line (whenever that
\* line has a target at all), and no token is empty.
C22_Padding ==
    (IsRun /\ last.err # "InputTooLarge") =>
        LET n == parseCommand(Normalized(last.arg), FreshCommand).cmd
        IN  /\ last.cmd.tokens = n.tokens
            /\ n.target # Uninitialized => last.cmd.target = n.target
            /\ \A i \in 1..Len(last.cmd.tokens) : last.cmd.tokens[i].str # <<>>

\* The registration calls made so far that put their name into a table
\* that did not hold it: a registerCVar without the unregistered flag whose
\* name no earlier such registerCVar had, and a registerMethod whose name no
\* earlier registerMethod had
Successful(i) ==
    LET req == HostProgram[i]
    IN  /\ req.call = "registerCVar" => ~HasFlag(req.flags, DEUS_CVAR_UNREGISTERED)
        /\ \A k \in 1..(i - 1) :
              (HostProgram[k].call = req.call /\ HostProgram[k].name = req.name)
              => (req.call = "registerCVar"
                  /\ HasFlag(HostProgram[k].flags, DEUS_CVAR_UNREGISTERED))

\* The description given with the first successful registration of a name
FirstDescription(name) ==
    LET made == {i \in 1..nreg : HostProgram[i].name = name /\ Successful(i)}
    IN  HostProgram[Least(made)].desc

\* C23: the help table holds exactly the names of the variable table and of
\* the method table, each with the description of the first successful
\* registration under that name, in whichever of the two registries the
\* later registrations of the name were made.
C23_HelpTable ==
    /\ DOMAIN helpTable = DOMAIN variableTable \cup DOMAIN methodTable
    /\ \A name \in DOMAIN helpTable : helpTable[name] = FirstDescription(name)

====
